---- MODULE Spec2Model ----
(***************************************************************************)
(* galah: an LLM-backed HTTP honeypot.  This module models server.go: the  *)
(* listener manager (startServers and the goroutines it launches, the      *)
(* shutdown-signal goroutine) and the per-connection dispatcher            *)
(* (handleRequest, sendResponse, isExcludedHeader); and the logger         *)
(* package: commonFields, LogEvent, LogError, errorFields and the          *)
(* Sessionizer that commonFields calls.                                    *)
(*                                                                         *)
(* Header names are sequences of one-character strings, so that            *)
(* strings.ToLower and the canonicalisation done by http.Header.Set are    *)
(* computed character by character.                                        *)
(***************************************************************************)
EXTENDS Integers, Sequences, FiniteSets, TLC

VARIABLES
    config,     \* app.Config: Ports (sequence of PortConfig) and TLS profiles
    started,    \* startServers has been called
    task,       \* state of the goroutine g.Go launched for each binding
    taskErr,    \* the error each finished goroutine returned ("nil" if none)
    closed,     \* Shutdown has been called on the binding's http.Server
    listen,     \* the address and protocol each goroutine's server listens on
    Servers,    \* app.Servers: port -> index of the binding whose server it is
    firstErr,   \* errgroup.Group: the first non-nil error returned by a task
    waitResult, \* what startServers returned from g.Wait() ("pending" before)
    shut,       \* the shutdown goroutine: pc, servers left to visit, current
    exited,     \* os.Exit was called; exitCode is its argument
    exitCode,
    cache,      \* the Response Cache: key -> stored bytes, or NoEntry
    inv,        \* one record per handleRequest invocation (connection slot)
    eventLog,   \* the Events handed to writeLog, in order
    sr,         \* input/output of a stand-alone sendResponse call (SendSpec)
    ef,         \* input/output of a stand-alone errorFields call (ErrorSpec)
    clock,      \* what time.Now() returns
    sessions,   \* the Sessionizer's store: source IP -> identifier and lastSeen
    uuids,      \* the number of session identifiers uuid has generated
    seen,       \* per src_ip logged: time and session of the last record, the
                \* time of the first record of that session, and the sessions
                \* of all records so far
    lg          \* the last call of LogEvent or LogError and the entry it wrote

\* the variables of the logger package
logVars == << ef, clock, sessions, uuids, seen, lg >>

vars == << config, started, task, taskErr, closed, listen, Servers, firstErr,
           waitResult, shut, exited, exitCode, cache, inv, eventLog, sr, logVars >>

lmVars == << config, started, task, taskErr, closed, listen, Servers, firstErr,
             waitResult, shut, exited, exitCode >>

-----------------------------------------------------------------------------
(* Bounds of the model.                                                    *)

\* number of handleRequest invocations (accepted connections) followed
MaxRequests == 2

-----------------------------------------------------------------------------
(* Characters and header names.                                            *)

upperChars == <<"A", "B", "C", "D", "E", "F", "G", "H", "I", "J", "K", "L", "M",
                "N", "O", "P", "Q", "R", "S", "T", "U", "V", "W", "X", "Y", "Z">>
lowerChars == <<"a", "b", "c", "d", "e", "f", "g", "h", "i", "j", "k", "l", "m",
                "n", "o", "p", "q", "r", "s", "t", "u", "v", "w", "x", "y", "z">>
digitChars == {"0", "1", "2", "3", "4", "5", "6", "7", "8", "9"}

\* unicode.ToLower and unicode.ToUpper on the ASCII letters, as tables
upperToLower ==
    [c \in {upperChars[k] : k \in DOMAIN upperChars} |->
        lowerChars[CHOOSE k \in DOMAIN upperChars : upperChars[k] = c]]
lowerToUpper ==
    [c \in {lowerChars[k] : k \in DOMAIN lowerChars} |->
        upperChars[CHOOSE k \in DOMAIN lowerChars : lowerChars[k] = c]]

IsUpper(c) == c \in DOMAIN upperToLower
IsLower(c) == c \in DOMAIN lowerToUpper

ToLowerChar(c) == IF IsUpper(c) THEN upperToLower[c] ELSE c

ToUpperChar(c) == IF IsLower(c) THEN lowerToUpper[c] ELSE c

\* strings.ToLower
ToLower(s) == [k \in DOMAIN s |-> ToLowerChar(s[k])]

\* textproto: the bytes allowed in a header field name (a token): letters,
\* digits and some punctuation, of which the names of this model use three.
\* A slash or a space is not a token byte.
validHeaderFieldByte(c) ==
    \/ IsUpper(c) \/ IsLower(c) \/ c \in digitChars
    \/ c \in {"-", ".", "_"}

\* textproto.CanonicalMIMEHeaderKey, applied by http.Header.Set: a name that is
\* not a token is left as it is; otherwise the first letter and every letter
\* after a hyphen are upper-cased and the others lower-cased.
CanonicalMIMEHeaderKey(s) ==
    IF \E k \in DOMAIN s : ~validHeaderFieldByte(s[k]) THEN s
    ELSE [k \in DOMAIN s |->
            IF k = 1 \/ s[k - 1] = "-" THEN ToUpperChar(s[k]) ELSE ToLowerChar(s[k])]

ignoreHeaders ==
    { <<"c", "o", "n", "t", "e", "n", "t", "-", "l", "e", "n", "g", "t", "h">>,
      <<"c", "o", "n", "t", "e", "n", "t", "-", "t", "y", "p", "e">>,
      <<"d", "a", "t", "e">>,
      <<"e", "x", "p", "i", "r", "e", "s">>,
      <<"l", "a", "s", "t", "-", "m", "o", "d", "i", "f", "i", "e", "d">>,
      <<"h", "t", "t", "p">>,
      <<"h", "t", "t", "p", "/", "1", ".", "0">>,
      <<"h", "t", "t", "p", "/", "1", ".", "1">>,
      <<"h", "t", "t", "p", "/", "1", ".", "2">>,
      <<"h", "t", "t", "p", "/", "2", ".", "0">> }

\* lines 168-170
isExcludedHeader(headerKey) == ToLower(headerKey) \in ignoreHeaders

hContentType == <<"C", "o", "n", "t", "e", "n", "t", "-", "T", "y", "p", "e">>
hContentTypeUpper == <<"C", "O", "N", "T", "E", "N", "T", "-", "T", "Y", "P", "E">>
hDate == <<"D", "a", "t", "e">>
hDateLower == <<"d", "a", "t", "e">>
hXCustom == <<"X", "-", "C", "u", "s", "t", "o", "m">>
hXCustomLower == <<"x", "-", "c", "u", "s", "t", "o", "m">>
hHttp11 == <<"H", "T", "T", "P", "/", "1", ".", "1">>
hServer == <<"S", "e", "r", "v", "e", "r">>
hXContentTypeOptions ==
    <<"X", "-", "C", "o", "n", "t", "e", "n", "t", "-", "T", "y", "p", "e", "-",
      "O", "p", "t", "i", "o", "n", "s">>

-----------------------------------------------------------------------------
(* Requests, generated payloads and the HTTPResponse record.               *)

EmptyMap == [h \in {} |-> ""]

\* the zero value of HTTPResponse: {Headers map[string]string; Body string}
NoRecord == [Headers |-> EmptyMap, Body |-> ""]

\* no bytes: what checkCache returns with its error
NoEntry == [kind |-> "none", Headers |-> EmptyMap, Body |-> ""]

NoRequest == [Method |-> "", URL |-> "", Header |-> EmptyMap, Body |-> ""]

\* A response string is modelled by its JSON reading: kind "json" is the
\* encoding of an object with a string map Headers and a string Body; kind
\* "text" is a string that is not such an object (not JSON at all, or JSON of
\* another shape), whose characters are kept in Body.
JSON(headers, body) == [kind |-> "json", Headers |-> headers, Body |-> body]
Text(raw) == [kind |-> "text", Headers |-> EmptyMap, Body |-> raw]

PayloadPasswd ==
    JSON([h \in {hContentType, hDate, hXCustom} |->
            IF h = hContentType THEN "text/plain" ELSE IF h = hDate THEN "today" ELSE "1"],
         "root:x:0:0:")
PayloadLogin == JSON([h \in {hServer} |-> "Apache/2.4.38"], "<html>Login</html>")
PayloadChatter == Text("I cannot help with that request.")

\* what generateLLMResponse can return as its string when err is nil
Payloads == {PayloadPasswd, PayloadLogin, PayloadChatter}

\* the (string, error) pairs generateLLMResponse can return
GenOutcomes ==
    {[err |-> "nil", responseString |-> p] : p \in Payloads}
    \cup {[err |-> "llm: request failed", responseString |-> NoEntry]}

ReqPasswd ==
    [Method |-> "GET", URL |-> "/etc/passwd",
     Header |-> [h \in {"Host", "User-Agent"} |-> IF h = "Host" THEN "10.0.0.1" ELSE "curl/8"],
     Body |-> ""]
\* the same probe with other header values
ReqPasswdAgain ==
    [Method |-> "GET", URL |-> "/etc/passwd",
     Header |-> [h \in {"Host", "User-Agent"} |-> IF h = "Host" THEN "honeypot" ELSE "zgrab"],
     Body |-> ""]
ReqLogin ==
    [Method |-> "POST", URL |-> "/login",
     Header |-> [h \in {"Host"} |-> "10.0.0.1"],
     Body |-> "user=admin"]

Requests == {ReqPasswd, ReqPasswdAgain, ReqLogin}

-----------------------------------------------------------------------------
(* The ResponseWriter and the functions that write to it.                  *)

\* a fresh http.ResponseWriter: no status yet, no header, nothing written.
\* writes counts the calls of Write, body holds the chunks that reached the
\* client, failed the calls of Write that returned an error.
NewWriter == [status |-> 0, header |-> EmptyMap, body |-> <<>>, writes |-> 0, failed |-> 0]

\* http.Header.Set: the name is canonicalised, the value replaces any other
HeaderSet(header, key, value) ==
    LET name == CanonicalMIMEHeaderKey(key)
    IN  [h \in DOMAIN header \cup {name} |-> IF h = name THEN value ELSE header[h]]

\* ResponseWriter.Write: the first Write sends status 200 unless WriteHeader
\* was called; the data reaches the client unless the connection is broken.
WriterWrite(w, data, writeOk) ==
    [w EXCEPT !.status = IF w.status = 0 THEN 200 ELSE w.status,
              !.body = IF writeOk THEN Append(w.body, data) ELSE w.body,
              !.writes = w.writes + 1,
              !.failed = IF writeOk THEN w.failed ELSE w.failed + 1]

ErrorBody == "Internal Server Error\n"

\* http.Error(w, "Internal Server Error", http.StatusInternalServerError)
httpError(w, writeOk) ==
    LET h1 == HeaderSet(w.header, hContentType, "text/plain; charset=utf-8")
        h2 == HeaderSet(h1, hXContentTypeOptions, "nosniff")
    IN  WriterWrite([w EXCEPT !.header = h2, !.status = 500], ErrorBody, writeOk)

\* the orders in which a range statement can visit the keys of a map
RangeOrders(m) ==
    {o \in [1..Cardinality(DOMAIN m) -> DOMAIN m] :
        \A a, b \in DOMAIN o : a # b => o[a] # o[b]}

\* the loop of sendResponse over the keys in the order given
RECURSIVE rangeHeaders(_, _, _)
rangeHeaders(header, headers, order) ==
    IF order = <<>> THEN header
    ELSE LET key == Head(order)
         IN  rangeHeaders(IF ~isExcludedHeader(key)
                            THEN HeaderSet(header, key, headers[key])
                            ELSE header,
                          headers, Tail(order))

\* lines 155-166
sendResponse(w, response, order, writeOk) ==
    WriterWrite([w EXCEPT !.header = rangeHeaders(w.header, response.Headers, order)],
                response.Body, writeOk)

-----------------------------------------------------------------------------
(* Configuration and the servers built from it.                            *)

TLSProfiles ==
    [n \in {"tls_profile1", "nokey", "nocert"} |->
        [Certificate |-> IF n = "nocert" THEN "" ELSE "config/cert/cert.pem",
         Key |-> IF n = "nokey" THEN "" ELSE "config/cert/key.pem"]]

PortConfig(port, protocol, profile) ==
    [Port |-> port, Protocol |-> protocol, TLSProfile |-> profile]

HTTP80 == PortConfig(80, "HTTP", "")
FTP80 == PortConfig(80, "FTP", "")
HTTP8080 == PortConfig(8080, "HTTP", "")
TLS443 == PortConfig(443, "TLS", "tls_profile1")
TLS443NoProfile == PortConfig(443, "TLS", "")
TLS443Absent == PortConfig(443, "TLS", "absent")
TLS443NoKey == PortConfig(443, "TLS", "nokey")
TLS443NoCert == PortConfig(443, "TLS", "nocert")

\* the configurations the dispatcher is followed under
Configs ==
    {[Ports |-> ports, TLS |-> TLSProfiles] :
        ports \in {<<HTTP80, TLS443>>, <<HTTP80, TLS443NoKey>>, <<FTP80, HTTP8080>>}}

\* the configurations the listener manager is followed under
ListenerConfigs ==
    {[Ports |-> <<a, b>>, TLS |-> TLSProfiles] :
        a \in {HTTP80, FTP80},
        b \in {TLS443, TLS443NoProfile, TLS443Absent, TLS443NoKey, TLS443NoCert,
                HTTP8080}}

Bindings == DOMAIN config.Ports

\* lines 40-42 without the copy of line 41: the goroutines, which run after the
\* loop has ended, all read the one loop variable, left at the last binding
capturedBindingShared(j) == config.Ports[Len(config.Ports)]

\* lines 40-42: the binding the goroutine launched in iteration j works on,
\* its own copy of the loop variable (pc := pc)
capturedBinding(j) == config.Ports[j]

\* strconv of a port number: the decimal string, kept as one item
Itoa(port) == <<port>>

\* fmt.Sprintf(":%d", pc.Port)
SprintfAddr(port) == <<":">> \o Itoa(port)

\* net.SplitHostPort of an address of the form ":port"; the port is a string
SplitHostPort(addr) ==
    IF Len(addr) = 2 /\ addr[1] = ":"
    THEN [port |-> Tail(addr), err |-> "nil"]
    ELSE [port |-> <<>>, err |-> "missing port in address"]

\* setupServer: the server's address; its handler calls handleRequest with it
setupServer(pc) == [Addr |-> SprintfAddr(pc.Port), HandlerAddr |-> SprintfAddr(pc.Port)]

-----------------------------------------------------------------------------
(* The Response Cache.                                                     *)

\* the key hashes method, URL, the sorted header names, the body and the port;
\* the hash is taken to be injective on what it hashes
getCacheKey(r, port) == <<r.Method, r.URL, DOMAIN r.Header, r.Body, port>>

CachePorts == {Itoa(80), Itoa(443), Itoa(8080)}
CacheKeys == {getCacheKey(r, p) : r \in Requests, p \in CachePorts}

\* lookup: the stored bytes, or an error when the key has no entry
checkCache(c, r, port) ==
    LET key == getCacheKey(r, port)
    IN  IF c[key] = NoEntry
        THEN [response |-> NoEntry, err |-> "not found"]
        ELSE [response |-> c[key], err |-> "nil"]

\* store: last write wins; a failed store leaves the cache as it was
storeResponse(c, key, response, storeOk) ==
    IF storeOk
    THEN [cache |-> [c EXCEPT ![key] = response], err |-> "nil"]
    ELSE [cache |-> c, err |-> "store failed"]

-----------------------------------------------------------------------------
(* The Event Logger as handleRequest uses it.                              *)

\* makeEvent: the response headers are logged as generated
makeEvent(r, respData, port) ==
    [kind |-> "successfulResponse", request |-> r, port |-> port,
     headers |-> respData.Headers, body |-> respData.Body]

\* writeLog: one record appended to the event log
writeLog(log, event) == Append(log, event)

-----------------------------------------------------------------------------
(* handleRequest, one operator per stretch of code between two blocking    *)
(* calls.  st is the record of one invocation:                             *)
(*   pc        where the invocation is: idle, check, gen, store, parse,    *)
(*             log, done                                                   *)
(*   r, addr   the request and the serverAddr of the accepting server      *)
(*   port      the port string split from addr                             *)
(*   hit       checkCache returned no error                                *)
(*   response  the bytes to parse; respData the parsed HTTPResponse        *)
(*   cached    the bytes checkCache returned (NoEntry with its error)      *)
(*   responseString  the string generateLLMResponse returned               *)
(*   genErr, storeErr  the errors of generateLLMResponse and storeResponse *)
(*   w         the ResponseWriter                                          *)
(*   nGen, nStore, nEvent  calls of generateLLMResponse, storeResponse and *)
(*             writeLog made by the invocation                             *)
(*   sent      the HTTPResponse passed to sendResponse (NoRecord if none)  *)
(*   before    the invocations that had returned when this one started     *)
(*   srv       the binding whose server accepted the connection            *)

Slots == 1..MaxRequests

IdleInvocation ==
    [pc |-> "idle", r |-> NoRequest, addr |-> <<>>, port |-> <<>>, hit |-> FALSE,
     response |-> NoEntry, cached |-> NoEntry, responseString |-> NoEntry,
     respData |-> NoRecord, genErr |-> "nil", storeErr |-> "nil",
     w |-> NewWriter, nGen |-> 0, nStore |-> 0, nEvent |-> 0, sent |-> NoRecord,
     before |-> {}, srv |-> 0]

\* json.Unmarshal(response, &respData)
Unmarshal(response) ==
    IF response.kind = "json"
    THEN [err |-> "nil", respData |-> [Headers |-> response.Headers, Body |-> response.Body]]
    ELSE [err |-> "invalid character", respData |-> NoRecord]

\* lines 113-122 with the generation done whether or not the cache has the
\* response
checkStepAlwaysMiss(st, c) ==
    LET port == SplitHostPort(st.addr).port
        res == checkCache(c, st.r, port)
    IN  [st EXCEPT !.port = port, !.response = res.response, !.cached = res.response,
                   !.hit = (res.err = "nil"), !.pc = "gen"]

\* lines 113-122: split the port, look the request up in the cache; on an
\* error (a miss) go on to generate, otherwise to parse what the cache returned
checkStep(st, c) ==
    LET port == SplitHostPort(st.addr).port
        res == checkCache(c, st.r, port)
    IN  [st EXCEPT !.port = port, !.response = res.response, !.cached = res.response,
                   !.hit = (res.err = "nil"),
                   !.pc = IF res.err # "nil" THEN "gen" ELSE "parse"]

\* lines 124-133 with the return of line 128 left out
generateStepNoReturn(st, out, writeOk) ==
    IF out.err # "nil"
    THEN [st EXCEPT !.nGen = st.nGen + 1, !.genErr = out.err,
                    !.w = httpError(st.w, writeOk), !.pc = "store"]
    ELSE [st EXCEPT !.nGen = st.nGen + 1, !.responseString = out.responseString,
                    !.pc = "store"]

\* lines 124-133: the call of generateLLMResponse has returned out
generateStep(st, out, writeOk) ==
    IF out.err # "nil"
    THEN [st EXCEPT !.nGen = st.nGen + 1, !.genErr = out.err,
                    !.w = httpError(st.w, writeOk), !.pc = "done"]
    ELSE [st EXCEPT !.nGen = st.nGen + 1, !.responseString = out.responseString,
                    !.pc = "store"]

\* lines 133-135: store the generated bytes; the error is assigned and not read
storeStep(st, c, storeOk) ==
    LET key == getCacheKey(st.r, st.port)
        res == storeResponse(c, key, st.responseString, storeOk)
    IN  [st |-> [st EXCEPT !.response = st.responseString,
                           !.nStore = st.nStore + 1, !.storeErr = res.err,
                           !.pc = "parse"],
         cache |-> res.cache]

\* lines 139-147 preceded by a check of the error storeResponse returned
parseStepStoreErrorFatal(st, order, writeOk) ==
    LET u == Unmarshal(st.response)
    IN  IF st.storeErr # "nil" \/ u.err # "nil"
        THEN [st EXCEPT !.w = httpError(st.w, writeOk), !.pc = "done"]
        ELSE [st EXCEPT !.respData = u.respData, !.sent = u.respData,
                        !.w = sendResponse(st.w, u.respData, order, writeOk),
                        !.pc = "log"]

\* lines 139-147 with the return of line 143 left out
parseStepNoReturn(st, order, writeOk) ==
    LET u == Unmarshal(st.response)
        w1 == IF u.err # "nil" THEN httpError(st.w, writeOk) ELSE st.w
    IN  [st EXCEPT !.respData = u.respData, !.sent = u.respData,
                   !.w = sendResponse(w1, u.respData, order, writeOk),
                   !.pc = "log"]

\* lines 139-147 with a return when the write of sendResponse failed
parseStepAbortOnWriteError(st, order, writeOk) ==
    LET u == Unmarshal(st.response)
    IN  IF u.err # "nil"
        THEN [st EXCEPT !.w = httpError(st.w, writeOk), !.pc = "done"]
        ELSE [st EXCEPT !.respData = u.respData, !.sent = u.respData,
                        !.w = sendResponse(st.w, u.respData, order, writeOk),
                        !.pc = IF writeOk THEN "log" ELSE "done"]

\* lines 139-147: parse the bytes, answer 500 or send the parsed response
parseStep(st, order, writeOk) ==
    LET u == Unmarshal(st.response)
    IN  IF u.err # "nil"
        THEN [st EXCEPT !.w = httpError(st.w, writeOk), !.pc = "done"]
        ELSE [st EXCEPT !.respData = u.respData, !.sent = u.respData,
                        !.w = sendResponse(st.w, u.respData, order, writeOk),
                        !.pc = "log"]

\* lines 151-152: build the event and hand it to the event logger
logStep(st) == [st EXCEPT !.nEvent = st.nEvent + 1, !.pc = "done"]

InFlight(i) == inv[i].pc \notin {"idle", "done"}

-----------------------------------------------------------------------------
(* Actions of the dispatcher.                                              *)

\* the server of binding j accepts a connection and calls its handler
Accept(i, j, r) ==
    /\ ~exited
    /\ inv[i].pc = "idle"
    /\ \A k \in Slots : k < i => inv[k].pc # "idle"
    /\ task[j] = "serving" /\ ~closed[j]
    /\ inv' = [inv EXCEPT ![i] =
                 [IdleInvocation EXCEPT
                    !.pc = "check", !.r = r,
                    !.addr = setupServer(capturedBinding(j)).HandlerAddr, !.srv = j,
                    !.before = {k \in Slots : inv[k].pc = "done"}]]
    /\ UNCHANGED << lmVars, cache, eventLog, sr, logVars >>

CheckCache(i) ==
    /\ ~exited
    /\ inv[i].pc = "check"
    /\ inv' = [inv EXCEPT ![i] = checkStep(inv[i], cache)]
    /\ UNCHANGED << lmVars, cache, eventLog, sr, logVars >>

Generate(i, out, writeOk) ==
    /\ ~exited
    /\ inv[i].pc = "gen"
    /\ inv' = [inv EXCEPT ![i] = generateStep(inv[i], out, writeOk)]
    /\ UNCHANGED << lmVars, cache, eventLog, sr, logVars >>

Store(i, storeOk) ==
    /\ ~exited
    /\ inv[i].pc = "store"
    /\ LET res == storeStep(inv[i], cache, storeOk)
       IN  /\ inv' = [inv EXCEPT ![i] = res.st]
           /\ cache' = res.cache
    /\ UNCHANGED << lmVars, eventLog, sr, logVars >>

ParseAndSend(i, writeOk) ==
    /\ ~exited
    /\ inv[i].pc = "parse"
    /\ \E order \in RangeOrders(Unmarshal(inv[i].response).respData.Headers) :
          inv' = [inv EXCEPT ![i] = parseStep(inv[i], order, writeOk)]
    /\ UNCHANGED << lmVars, cache, eventLog, sr, logVars >>

LogEvent(i) ==
    /\ ~exited
    /\ inv[i].pc = "log"
    /\ eventLog' = writeLog(eventLog, makeEvent(inv[i].r, inv[i].respData, inv[i].port))
    /\ inv' = [inv EXCEPT ![i] = logStep(inv[i])]
    /\ UNCHANGED << lmVars, cache, sr, logVars >>

-----------------------------------------------------------------------------
(* The listener manager: startServers and its goroutines.                  *)

EmptyServers == [p \in {} |-> 0]

\* startTLSServer, lines 86-93, with the test of the key path left out
tlsProfileErrorKeyUnchecked(pc) ==
    IF pc.TLSProfile = "" THEN "TLS profile is not configured"
    ELSE IF \/ pc.TLSProfile \notin DOMAIN config.TLS
            \/ config.TLS[pc.TLSProfile].Certificate = ""
         THEN "TLS profile is incomplete"
         ELSE "nil"

\* startTLSServer, lines 86-93: the checks made before listening
tlsProfileError(pc) ==
    IF pc.TLSProfile = "" THEN "TLS profile is not configured"
    ELSE IF \/ pc.TLSProfile \notin DOMAIN config.TLS
            \/ config.TLS[pc.TLSProfile].Certificate = ""
            \/ config.TLS[pc.TLSProfile].Key = ""
         THEN "TLS profile is incomplete"
         ELSE "nil"

\* lines 46-53: the error known before the server listens ("nil": it listens)
startError(pc) ==
    CASE pc.Protocol = "TLS" -> tlsProfileError(pc)
      [] pc.Protocol = "HTTP" -> "nil"
      [] OTHER -> "unknown protocol"

\* lines 55-64: what the goroutine of binding j does with the error returned
\* by startTLSServer or startHTTPServer
taskReturn(j, err) ==
    /\ task' = [task EXCEPT ![j] = "returned"]
    /\ taskErr' = [taskErr EXCEPT ![j] = err]
    /\ IF err # "nil"
       THEN /\ firstErr' = IF firstErr = "nil" THEN err ELSE firstErr
            /\ Servers' = Servers
       ELSE /\ firstErr' = firstErr
            /\ Servers' = [p \in DOMAIN Servers \cup {capturedBinding(j).Port} |->
                             IF p = capturedBinding(j).Port THEN j ELSE Servers[p]]

NoListen == [Addr |-> <<>>, Protocol |-> ""]

\* lines 43-50, 96 and 105: the server setupServer built for pc listens on its
\* Addr, with TLS or without
Listening(pc) == [Addr |-> setupServer(pc).Addr, Protocol |-> pc.Protocol]

\* lines 35-40: the registry is created and one goroutine launched per binding
StartServers ==
    /\ ~exited /\ ~started
    /\ started' = TRUE
    /\ Servers' = EmptyServers
    /\ task' = [j \in Bindings |-> "ready"]
    /\ UNCHANGED << config, taskErr, closed, listen, firstErr, waitResult, shut,
                    exited, exitCode, cache, inv, eventLog, sr, logVars >>

\* A step of the goroutine of binding j.  From ready it runs lines 43-53: a
\* binding that fails the checks returns its error; otherwise ListenAndServe or
\* ListenAndServeTLS either fails to listen and returns the error, or listens
\* and blocks while the server serves.  ListenAndServe returns only once the
\* server is shut down, and then with http.ErrServerClosed.
TaskStep(j, listenOk) ==
    /\ ~exited /\ started
    /\ \/ task[j] = "ready"
       \/ task[j] = "serving" /\ closed[j]
    /\ IF task[j] = "ready"
       THEN LET pc == capturedBinding(j)
                err == startError(pc)
            IN  IF err # "nil" THEN taskReturn(j, err) /\ UNCHANGED listen
                ELSE IF listenOk
                     THEN /\ task' = [task EXCEPT ![j] = "serving"]
                          /\ listen' = [listen EXCEPT ![j] = Listening(pc)]
                          /\ UNCHANGED << taskErr, firstErr, Servers >>
                     ELSE taskReturn(j, "listen: address already in use")
                          /\ UNCHANGED listen
       ELSE taskReturn(j, "http: Server closed") /\ UNCHANGED listen
    /\ UNCHANGED << config, started, closed, waitResult, shut, exited,
                    exitCode, cache, inv, eventLog, sr, logVars >>

\* line 68: g.Wait() returns once every goroutine has returned
WaitReturn ==
    /\ ~exited /\ started
    /\ waitResult = "pending"
    /\ \A j \in Bindings : task[j] = "returned"
    /\ waitResult' = firstErr
    /\ UNCHANGED << config, started, task, taskErr, closed, listen, Servers, firstErr,
                    shut, exited, exitCode, cache, inv, eventLog, sr, logVars >>

-----------------------------------------------------------------------------
(* listenForShutdownSignals.                                               *)

NoPort == 0

\* the requests the server of binding j is handling
InFlightOn(j) ==
    {i \in Slots : InFlight(i) /\ inv[i].srv = j}

\* A step of the goroutine of lines 176-188, from one blocking call to the
\* next.  Waiting at <-sig, it receives a SIGINT or SIGTERM and starts to range
\* over app.Servers; with no server left to visit it reaches os.Exit(0).
\* Shutdown(ctx) closes the server's listener at once and returns when the
\* server's requests have finished or when ctx is done (deadline true); its
\* error is logged and the loop goes on.
ShutdownStep(p, deadline) ==
    /\ ~exited
    /\ CASE shut.pc = "wait" ->
              IF DOMAIN Servers = {}
              THEN /\ exited' = TRUE
                   /\ exitCode' = 0
                   /\ shut' = [shut EXCEPT !.pc = "exited"]
                   /\ UNCHANGED closed
              ELSE /\ p \in DOMAIN Servers
                   /\ closed' = [closed EXCEPT ![Servers[p]] = TRUE]
                   /\ shut' = [shut EXCEPT !.pc = "shutdown", !.todo = DOMAIN Servers,
                                           !.cur = p]
                   /\ UNCHANGED << exited, exitCode >>
         [] shut.pc = "shutdown" ->
              /\ deadline \/ InFlightOn(Servers[shut.cur]) = {}
              /\ LET failed == IF InFlightOn(Servers[shut.cur]) = {}
                               THEN shut.failed ELSE shut.failed \cup {shut.cur}
                     todo == shut.todo \ {shut.cur}
                 IN  IF todo = {}
                     THEN /\ exited' = TRUE
                          /\ exitCode' = 0
                          /\ shut' = [pc |-> "exited", todo |-> todo, cur |-> NoPort,
                                      failed |-> failed]
                          /\ UNCHANGED closed
                     ELSE /\ p \in todo
                          /\ closed' = [closed EXCEPT ![Servers[p]] = TRUE]
                          /\ shut' = [pc |-> "shutdown", todo |-> todo, cur |-> p,
                                      failed |-> failed]
                          /\ UNCHANGED << exited, exitCode >>
         [] OTHER -> FALSE
    /\ UNCHANGED << config, started, task, taskErr, listen, Servers, firstErr,
                    waitResult, cache, inv, eventLog, sr, logVars >>

-----------------------------------------------------------------------------
(* The logger package: errorFields.  The message of an error is a sequence *)
(* of pieces, each a marker, the separator ": " or other text.             *)

errorInvalidJSONResponse == "invalidJSONResponse"
errorEmptyLLMResponse == "emptyLLMResponse"
errorContentGeneration == "contentGenerationError"

\* strings.Contains
Contains(s, substr) ==
    \E k \in 0..(Len(s) - Len(substr)) : SubSeq(s, k + 1, k + Len(substr)) = substr

\* strings.ReplaceAll for a non-empty old: the occurrences of old are replaced
\* from left to right, and what a replacement puts together is not looked at
\* again
RECURSIVE ReplaceAll(_, _, _)
ReplaceAll(s, old, new) ==
    IF Len(s) < Len(old) THEN s
    ELSE IF SubSeq(s, 1, Len(old)) = old
         THEN new \o ReplaceAll(SubSeq(s, Len(old) + 1, Len(s)), old, new)
         ELSE <<Head(s)>> \o ReplaceAll(Tail(s), old, new)

\* lines 152-173 with the first two cases of the switch in the other order
errorFieldsEmptyFirst(err, resp) ==
    LET strip(marker) == ReplaceAll(err, <<marker, ": ">>, <<>>)
    IN  IF Contains(err, <<errorEmptyLLMResponse>>)
        THEN [type |-> errorEmptyLLMResponse, msg |-> strip(errorEmptyLLMResponse),
              invalidResponse |-> resp]
        ELSE IF Contains(err, <<errorInvalidJSONResponse>>)
        THEN [type |-> errorInvalidJSONResponse, msg |-> strip(errorInvalidJSONResponse),
              invalidResponse |-> resp]
        ELSE [type |-> errorContentGeneration, msg |-> strip(errorContentGeneration),
              invalidResponse |-> resp]

\* lines 152-173; err is the message err.Error() returns
errorFields(err, resp) ==
    LET strip(marker) == ReplaceAll(err, <<marker, ": ">>, <<>>)
    IN  IF Contains(err, <<errorInvalidJSONResponse>>)
        THEN [type |-> errorInvalidJSONResponse, msg |-> strip(errorInvalidJSONResponse),
              invalidResponse |-> resp]
        ELSE IF Contains(err, <<errorEmptyLLMResponse>>)
        THEN [type |-> errorEmptyLLMResponse, msg |-> strip(errorEmptyLLMResponse),
              invalidResponse |-> resp]
        ELSE [type |-> errorContentGeneration, msg |-> strip(errorContentGeneration),
              invalidResponse |-> resp]

NoFields == [type |-> "", msg |-> <<>>, invalidResponse |-> ""]

-----------------------------------------------------------------------------
(* The logger package: the Sessionizer, commonFields, LogEvent, LogError.  *)
(* Field names are sequences of pieces ("response.headers." followed by    *)
(* the characters of a header name); an address is host, ":" and port.     *)

\* the inactivity window of the Sessionizer, in ticks of the clock
InactivityWindow == 1

\* the assignment m[k] = v of a Go map
MapSet(m, k, v) == [x \in DOMAIN m \cup {k} |-> IF x = k THEN v ELSE m[x]]

\* uuid.NewString(): the n-th identifier generated; no two are equal
UUID(n) == <<"uuid", n>>

\* line 87: net.SplitHostPort(r.RemoteAddr)
SplitRemoteAddr(addr) ==
    IF Len(addr) = 3 /\ addr[2] = ":"
    THEN [host |-> <<addr[1]>>, port |-> <<addr[3]>>, err |-> "nil"]
    ELSE [host |-> <<>>, port |-> <<>>, err |-> "missing port in address"]

\* Sessionizer.Process(ip, now): a new identifier when the store has no entry
\* for ip or now - lastSeen exceeds the window, the identifier of the entry
\* otherwise; lastSeen is set to now in both cases.  A failure of the store
\* returns a blank identifier with the error.
SessionizerProcess(store, ip, now, uuid, ok) ==
    IF ~ok THEN [store |-> store, id |-> <<>>, err |-> "session store failed"]
    ELSE IF ip \notin DOMAIN store \/ now - store[ip].lastSeen > InactivityWindow
         THEN [store |-> MapSet(store, ip, [id |-> uuid, lastSeen |-> now]),
               id |-> uuid, err |-> "nil"]
         ELSE [store |-> MapSet(store, ip, [id |-> store[ip].id, lastSeen |-> now]),
               id |-> store[ip].id, err |-> "nil"]

\* what EnrichCache.Process(srcIP) can return: an error (with no info or
\* with one), no info, or the info
NoInfo == [KnownScanner |-> "", Host |-> ""]
EnrichOutcomes ==
    {[err |-> "enrich: lookup failed", found |-> FALSE, info |-> NoInfo],
     [err |-> "enrich: lookup failed", found |-> TRUE,
      info |-> [KnownScanner |-> "shodan", Host |-> ""]],
     [err |-> "nil", found |-> FALSE, info |-> NoInfo],
     [err |-> "nil", found |-> TRUE,
      info |-> [KnownScanner |-> "shodan", Host |-> "census.shodan.io"]]}

\* lines 93-105 with the info read whether or not Process returned an error
enrichmentIgnoringError(enrich) ==
    [tags |-> IF enrich.found /\ enrich.info.KnownScanner # ""
              THEN enrich.info.KnownScanner ELSE "",
     host |-> IF enrich.found /\ enrich.info.Host # "" THEN enrich.info.Host ELSE ""]

\* lines 93-105: the tags, joined, and the hostname; both are empty unless
\* Process returned an info without error
enrichment(enrich) ==
    LET known == enrich.err = "nil" /\ enrich.found
    IN  [tags |-> IF known /\ enrich.info.KnownScanner # ""
                  THEN enrich.info.KnownScanner ELSE "",
         host |-> IF known /\ enrich.info.Host # "" THEN enrich.info.Host ELSE ""]

\* the names of the fields of lines 122-142
CommonKeys ==
    {<<"src_ip">>, <<"hostname">>, <<"src_port">>, <<"tags">>, <<"sensorName">>,
     <<"dest_port">>, <<"session">>, <<"request.method">>, <<"request.protocol">>,
     <<"request.requestURI">>, <<"request.userAgent">>, <<"request.body">>,
     <<"request.bodySha256">>, <<"request.headers.sorted">>,
     <<"request.headers.sortedSha256">>}

\* sha256 and hex: a hash, taken to be injective
Sha256(data) == <<"sha256", data>>

\* lines 112-113 and strings.Join: the sorted header names, joined
SortedKeys(header) == DOMAIN header

\* http.Request.UserAgent
UserAgent(r) == IF "User-Agent" \in DOMAIN r.Header THEN r.Header["User-Agent"] ELSE ""

\* lines 85-150 with the whole of r.RemoteAddr given to the Sessionizer
commonFieldsByRemoteAddr(r, port, now, store, uuid, enrich, sessOk, hostOk) ==
    LET split == SplitRemoteAddr(r.RemoteAddr)
        srcIP == IF split.err # "nil" THEN r.RemoteAddr ELSE split.host
        srcPort == IF split.err # "nil" THEN <<>> ELSE split.port
        tags == enrichment(enrich).tags
        host == enrichment(enrich).host
        sensorName == IF hostOk THEN <<"sensor-1">> ELSE UUID(0)
        sess == SessionizerProcess(store, r.RemoteAddr, now, uuid, sessOk)
        value(key) ==
            CASE key = <<"src_ip">> -> srcIP
              [] key = <<"hostname">> -> host
              [] key = <<"src_port">> -> srcPort
              [] key = <<"tags">> -> tags
              [] key = <<"sensorName">> -> sensorName
              [] key = <<"dest_port">> -> port
              [] key = <<"session">> -> sess.id
              [] key = <<"request.method">> -> r.Method
              [] key = <<"request.protocol">> -> r.Proto
              [] key = <<"request.requestURI">> -> r.RequestURI
              [] key = <<"request.userAgent">> -> UserAgent(r)
              [] key = <<"request.body">> -> r.Body
              [] key = <<"request.bodySha256">> -> Sha256(r.Body)
              [] key = <<"request.headers.sorted">> -> SortedKeys(r.Header)
              [] key = <<"request.headers.sortedSha256">> -> Sha256(SortedKeys(r.Header))
              [] OTHER -> r.Header[key[2]]
    IN  [fields |-> [key \in CommonKeys \cup {<<"request.headers.", k>> : k \in DOMAIN r.Header}
                        |-> value(key)],
         store |-> sess.store, sessErr |-> sess.err, enrichErr |-> enrich.err]

\* lines 85-150
commonFields(r, port, now, store, uuid, enrich, sessOk, hostOk) ==
    LET split == SplitRemoteAddr(r.RemoteAddr)
        srcIP == IF split.err # "nil" THEN r.RemoteAddr ELSE split.host
        srcPort == IF split.err # "nil" THEN <<>> ELSE split.port
        tags == enrichment(enrich).tags
        host == enrichment(enrich).host
        sensorName == IF hostOk THEN <<"sensor-1">> ELSE UUID(0)
        sess == SessionizerProcess(store, srcIP, now, uuid, sessOk)
        value(key) ==
            CASE key = <<"src_ip">> -> srcIP
              [] key = <<"hostname">> -> host
              [] key = <<"src_port">> -> srcPort
              [] key = <<"tags">> -> tags
              [] key = <<"sensorName">> -> sensorName
              [] key = <<"dest_port">> -> port
              [] key = <<"session">> -> sess.id
              [] key = <<"request.method">> -> r.Method
              [] key = <<"request.protocol">> -> r.Proto
              [] key = <<"request.requestURI">> -> r.RequestURI
              [] key = <<"request.userAgent">> -> UserAgent(r)
              [] key = <<"request.body">> -> r.Body
              [] key = <<"request.bodySha256">> -> Sha256(r.Body)
              [] key = <<"request.headers.sorted">> -> SortedKeys(r.Header)
              [] key = <<"request.headers.sortedSha256">> -> Sha256(SortedKeys(r.Header))
              [] OTHER -> r.Header[key[2]]
    IN  [fields |-> [key \in CommonKeys \cup {<<"request.headers.", k>> : k \in DOMAIN r.Header}
                        |-> value(key)],
         store |-> sess.store, sessErr |-> sess.err, enrichErr |-> enrich.err]

\* l.LLMConfig
LLMConfig == [Provider |-> "openai", Model |-> "gpt-4o", Temperature |-> "1"]

\* lines 58-60 and 77-79
withMetadata(fields) ==
    MapSet(MapSet(MapSet(fields,
        <<"response.metadata.provider">>, LLMConfig.Provider),
        <<"response.metadata.model">>, LLMConfig.Model),
        <<"response.metadata.temperature">>, LLMConfig.Temperature)

\* lines 69-72: fields["response.headers."+k] = v for the keys in the order given
RECURSIVE flattenHeaders(_, _, _)
flattenHeaders(fields, headers, order) ==
    IF order = <<>> THEN fields
    ELSE flattenHeaders(MapSet(fields, <<"response.headers.">> \o Head(order),
                               headers[Head(order)]),
                        headers, Tail(order))

\* lines 69-72 with the headers of the exclusion set left out
RECURSIVE flattenForwarded(_, _, _)
flattenForwarded(fields, headers, order) ==
    IF order = <<>> THEN fields
    ELSE flattenForwarded(IF isExcludedHeader(Head(order)) THEN fields
                          ELSE MapSet(fields, <<"response.headers.">> \o Head(order),
                                      headers[Head(order)]),
                          headers, Tail(order))

\* lines 66-82 with the flattening of flattenForwarded
LoggerLogEventForwarded(common, resp, respSource, order) ==
    [level |-> "info", msg |-> "successfulResponse",
     fields |->
        withMetadata(
            MapSet(MapSet(flattenForwarded(common, resp.Headers, order),
                <<"response.body">>, resp.Body),
                <<"response.metadata.generationSource">>, respSource))]

\* lines 66-82: the entry LogEvent writes, common being what commonFields
\* returned
LoggerLogEvent(common, resp, respSource, order) ==
    [level |-> "info", msg |-> "successfulResponse",
     fields |->
        withMetadata(
            MapSet(MapSet(flattenHeaders(common, resp.Headers, order),
                <<"response.body">>, resp.Body),
                <<"response.metadata.generationSource">>, respSource))]

\* lines 54-57: the fields of errorFields copied over the common ones
mergeErrorFields(common, e) ==
    MapSet(MapSet(MapSet(common, <<"type">>, e.type), <<"msg">>, e.msg),
           <<"invalidResponse">>, e.invalidResponse)

\* lines 52-63: the entry LogError writes
LoggerLogError(common, resp, err) ==
    [level |-> "error", msg |-> "failedResponse: returned 500 internal server error",
     fields |-> withMetadata(mergeErrorFields(common, errorFields(err, resp)))]

NoErrorCall == [phase |-> "none", err |-> <<>>, resp |-> "", fields |-> NoFields]

NoProbe ==
    [RemoteAddr |-> <<>>, Method |-> "", Proto |-> "", RequestURI |-> "",
     Header |-> EmptyMap, Body |-> ""]

NoLogEntry == [level |-> "", msg |-> "", fields |-> EmptyMap]

NoLog ==
    [op |-> "none", r |-> NoProbe, resp |-> NoRecord, enrichErr |-> "nil",
     sessErr |-> "nil", at |-> 0, entry |-> NoLogEntry]

-----------------------------------------------------------------------------
(* The specifications.                                                     *)

NoCall == [phase |-> "none", response |-> NoRecord, w |-> NewWriter]

\* the logger package after New: no call made, the session store empty
LoggerIdle ==
    /\ ef = NoErrorCall
    /\ clock = 0
    /\ sessions = EmptyMap
    /\ uuids = 0
    /\ seen = EmptyMap
    /\ lg = NoLog

\* the variables of package main after construction
InitProgram(configs) ==
    /\ config \in configs
    /\ started = FALSE
    /\ task = [j \in Bindings |-> "new"]
    /\ taskErr = [j \in Bindings |-> "nil"]
    /\ closed = [j \in Bindings |-> FALSE]
    /\ listen = [j \in Bindings |-> NoListen]
    /\ Servers = EmptyServers
    /\ firstErr = "nil"
    /\ waitResult = "pending"
    /\ shut = [pc |-> "wait", todo |-> {}, cur |-> NoPort, failed |-> {}]
    /\ exited = FALSE
    /\ exitCode = 0
    /\ cache = [k \in CacheKeys |-> NoEntry]
    /\ inv = [i \in Slots |-> IdleInvocation]
    /\ eventLog = <<>>

\* the state after construction, before startServers is called, for a
\* configuration of the set given and a sendResponse call c still to make
InitWith(configs, c) ==
    /\ LoggerIdle
    /\ sr = c
    /\ InitProgram(configs)

Init == InitWith(Configs, NoCall)

ListenerNext ==
    \/ StartServers
    \/ \E j \in Bindings, listenOk \in BOOLEAN : TaskStep(j, listenOk)
    \/ WaitReturn
    \/ \E p \in {80, 443, 8080}, deadline \in BOOLEAN : ShutdownStep(p, deadline)

DispatcherNext ==
    \/ \E i \in Slots, j \in Bindings, r \in Requests : Accept(i, j, r)
    \/ \E i \in Slots : CheckCache(i)
    \/ \E i \in Slots, out \in GenOutcomes, writeOk \in BOOLEAN : Generate(i, out, writeOk)
    \/ \E i \in Slots, storeOk \in BOOLEAN : Store(i, storeOk)
    \/ \E i \in Slots, writeOk \in BOOLEAN : ParseAndSend(i, writeOk)
    \/ \E i \in Slots : LogEvent(i)

Next == ListenerNext \/ DispatcherNext

\* the whole program
Spec == Init /\ [][Next]_vars

\* The dispatcher alone, from the states in which startServers has been called
\* and every goroutine has run: a binding that passes the checks is serving,
\* the others have returned their error.  No signal arrives.
DispatcherInit ==
    /\ config \in Configs
    /\ started = TRUE
    /\ task = [j \in Bindings |->
                 IF startError(capturedBinding(j)) = "nil" THEN "serving" ELSE "returned"]
    /\ taskErr = [j \in Bindings |-> startError(capturedBinding(j))]
    /\ closed = [j \in Bindings |-> FALSE]
    /\ listen = [j \in Bindings |->
                   IF startError(capturedBinding(j)) = "nil"
                   THEN Listening(capturedBinding(j)) ELSE NoListen]
    /\ Servers = EmptyServers
    /\ firstErr \in {taskErr[j] : j \in Bindings} \cup {"nil"}
    /\ (firstErr = "nil") = (\A j \in Bindings : taskErr[j] = "nil")
    /\ waitResult = "pending"
    /\ shut = [pc |-> "wait", todo |-> {}, cur |-> NoPort, failed |-> {}]
    /\ exited = FALSE
    /\ exitCode = 0
    /\ cache = [k \in CacheKeys |-> NoEntry]
    /\ inv = [i \in Slots |-> IdleInvocation]
    /\ eventLog = <<>>
    /\ sr = NoCall
    /\ LoggerIdle

DispatcherSpec == DispatcherInit /\ [][DispatcherNext]_vars


\* The listener manager alone, under every configuration of ListenerConfigs.
\* The Go scheduler runs every goroutine that can run: the goroutine of each
\* binding, the caller of g.Wait, and the shutdown goroutine once it has
\* received its signal.  Nothing makes a signal arrive.
ListenerInit == InitWith(ListenerConfigs, NoCall)

ListenerFairness ==
    /\ \A j \in {1, 2} : WF_vars(\E listenOk \in BOOLEAN : TaskStep(j, listenOk))
    /\ WF_vars(StartServers)
    /\ WF_vars(WaitReturn)
    /\ WF_vars(\E p \in {80, 443, 8080}, deadline \in BOOLEAN :
                  shut.pc = "shutdown" /\ ShutdownStep(p, deadline))

ListenerSpec == ListenerInit /\ [][ListenerNext]_vars /\ ListenerFairness

-----------------------------------------------------------------------------
(* sendResponse on its own: every HTTPResponse of at most MaxHeaders       *)
(* headers over the names and values below, written to a fresh writer.     *)

MaxHeaders == 3

SendNames ==
    {hContentType, hContentTypeUpper, hDateLower, hXCustom, hXCustomLower, hHttp11, hServer}
SendValues == {"v1", "v2"}
SendBodies == {"", "root:x:0:0:"}

SendRecords ==
    UNION {{[Headers |-> m, Body |-> b] : m \in [names -> SendValues], b \in SendBodies} :
             names \in {n \in SUBSET SendNames : Cardinality(n) <= MaxHeaders}}

SendConfig == [Ports |-> <<HTTP80, TLS443>>, TLS |-> TLSProfiles]

SendInit ==
    \E rec \in SendRecords :
        InitWith({SendConfig}, [phase |-> "call", response |-> rec, w |-> NewWriter])

SendResponseCall(order, writeOk) ==
    /\ sr.phase = "call"
    /\ sr' = [sr EXCEPT !.phase = "returned",
                        !.w = sendResponse(sr.w, sr.response, order, writeOk)]
    /\ UNCHANGED << lmVars, cache, inv, eventLog, logVars >>

SendNext ==
    \E writeOk \in BOOLEAN :
        \E order \in RangeOrders(sr.response.Headers) : SendResponseCall(order, writeOk)

SendSpec == SendInit /\ [][SendNext]_vars

-----------------------------------------------------------------------------
(* errorFields on its own: every message of at most MaxErrLen pieces.      *)

MaxErrLen == 4

ErrPieces ==
    {errorInvalidJSONResponse, errorEmptyLLMResponse, errorContentGeneration,
     ": ", "unexpected end of JSON input"}

ErrMessages == UNION {[1..n -> ErrPieces] : n \in 0..MaxErrLen}

\* the raw text of the response that goes with the error
ErrResponses == {"", "{\"Headers\": "}

ErrorInit ==
    /\ InitProgram({SendConfig})
    /\ sr = NoCall
    /\ \E e \in ErrMessages, resp \in ErrResponses :
          ef = [phase |-> "call", err |-> e, resp |-> resp, fields |-> NoFields]
    /\ clock = 0 /\ sessions = EmptyMap /\ uuids = 0 /\ seen = EmptyMap /\ lg = NoLog

ErrorFieldsCall ==
    /\ ef.phase = "call"
    /\ ef' = [ef EXCEPT !.phase = "returned", !.fields = errorFields(ef.err, ef.resp)]
    /\ UNCHANGED << lmVars, cache, inv, eventLog, sr, clock, sessions, uuids, seen, lg >>

ErrorSpec == ErrorInit /\ [][ErrorFieldsCall]_vars

-----------------------------------------------------------------------------
(* The logger on its own.  LoggerSpec follows one call of LogEvent or      *)
(* LogError on a fresh Logger, for every request, response, error and      *)
(* outcome of the collaborators below.  SessionSpec follows calls one      *)
(* after the other while the clock runs up to MaxTime, for requests of two *)
(* sources.                                                                *)

MaxTime == 3

Probe(remoteAddr, r) ==
    [RemoteAddr |-> remoteAddr, Method |-> r.Method, Proto |-> "HTTP/1.1",
     RequestURI |-> r.URL, Header |-> r.Header, Body |-> r.Body]

\* two connections of one source, one of another, and an address without port
LogProbes ==
    {Probe(<<"198.51.100.7", ":", "40001">>, ReqPasswd),
     Probe(<<"198.51.100.7", ":", "40002">>, ReqLogin),
     Probe(<<"203.0.113.9", ":", "40001">>, ReqPasswd),
     Probe(<<"198.51.100.7">>, ReqPasswd)}

\* a record with two names that differ in letter case only
RecordCaseVariants ==
    [Headers |-> [h \in {hXCustom, hXCustomLower, hContentTypeUpper} |->
                    IF h = hXCustom THEN "v2" ELSE IF h = hXCustomLower THEN "v1"
                    ELSE "text/html"],
     Body |-> "<html></html>"]

LogResponses ==
    {Unmarshal(PayloadPasswd).respData, Unmarshal(PayloadLogin).respData, RecordCaseVariants}

LogErrors ==
    {<<errorInvalidJSONResponse, ": ", "unexpected end of JSON input">>,
     <<"context deadline exceeded">>}

LoggerInit == InitWith({SendConfig}, NoCall)

\* time passes
Tick ==
    /\ clock < MaxTime
    /\ clock' = clock + 1
    /\ UNCHANGED << lmVars, cache, inv, eventLog, sr, ef, sessions, uuids, seen, lg >>

\* what a reader of the event log has seen of a source after one more record
observe(entry, now) ==
    LET ip == entry.fields[<<"src_ip">>]
        session == entry.fields[<<"session">>]
        before == IF ip \in DOMAIN seen THEN seen[ip].all ELSE {}
        since == IF ip \in DOMAIN seen /\ seen[ip].session = session
                 THEN seen[ip].since ELSE now
    IN  MapSet(seen, ip, [at |-> now, since |-> since, session |-> session,
                          all |-> before \cup {session}])

\* the state after a call whose commonFields returned c and which wrote entry
logged(op, r, resp, c, entry) ==
    /\ sessions' = c.store
    /\ uuids' = IF entry.fields[<<"session">>] = UUID(uuids + 1) THEN uuids + 1 ELSE uuids
    /\ seen' = IF c.sessErr = "nil" THEN observe(entry, clock) ELSE seen
    /\ lg' = [op |-> op, r |-> r, resp |-> resp, enrichErr |-> c.enrichErr,
              sessErr |-> c.sessErr, at |-> clock, entry |-> entry]
    /\ UNCHANGED << lmVars, cache, inv, eventLog, sr, ef, clock >>

\* Logger.LogEvent(r, resp, port, respSource)
LogEventCall(r, resp, respSource, enrich, sessOk, hostOk) ==
    \E order \in RangeOrders(resp.Headers) :
        LET c == commonFields(r, Itoa(80), clock, sessions, UUID(uuids + 1),
                              enrich, sessOk, hostOk)
        IN  logged("LogEvent", r, resp, c, LoggerLogEvent(c.fields, resp, respSource, order))

\* Logger.LogError(r, resp, port, err)
LogErrorCall(r, err, enrich, sessOk, hostOk) ==
    LET c == commonFields(r, Itoa(80), clock, sessions, UUID(uuids + 1),
                          enrich, sessOk, hostOk)
    IN  logged("LogError", r, NoRecord, c, LoggerLogError(c.fields, "{\"Headers\": ", err))

\* one call on a fresh Logger
LoggerNext ==
    /\ lg.op = "none"
    /\ \/ \E r \in LogProbes, resp \in LogResponses, respSource \in {"cache", "llm"},
             enrich \in EnrichOutcomes, sessOk \in BOOLEAN, hostOk \in BOOLEAN :
               LogEventCall(r, resp, respSource, enrich, sessOk, hostOk)
       \/ \E r \in LogProbes, err \in LogErrors,
             enrich \in EnrichOutcomes, sessOk \in BOOLEAN, hostOk \in BOOLEAN :
               LogErrorCall(r, err, enrich, sessOk, hostOk)

LoggerSpec == LoggerInit /\ [][LoggerNext]_vars

\* the outcome of the Enrichment Collaborator in SessionSpec
Enriched == CHOOSE e \in EnrichOutcomes : e.err = "nil" /\ e.found

\* calls over time
SessionNext ==
    \/ Tick
    \/ \E r \in LogProbes, sessOk \in BOOLEAN :
          LogEventCall(r, Unmarshal(PayloadLogin).respData, "llm", Enriched, sessOk, TRUE)
    \/ \E r \in LogProbes, sessOk \in BOOLEAN :
          LogErrorCall(r, <<"context deadline exceeded">>, Enriched, sessOk, TRUE)

SessionSpec == LoggerInit /\ [][SessionNext]_vars

-----------------------------------------------------------------------------
(* Properties of the dispatcher, checked under DispatcherSpec.             *)

Returned(i) == inv[i].pc = "done"
Accepted(i) == inv[i].pc # "idle"

\* the two invocations overlapped: neither had returned when the other started
Concurrent(i, j) ==
    /\ i # j /\ Accepted(i) /\ Accepted(j)
    /\ i \notin inv[j].before /\ j \notin inv[i].before

\* identical method, path, header names, body and destination port
SameProbe(i, j) ==
    /\ inv[i].r.Method = inv[j].r.Method
    /\ inv[i].r.URL = inv[j].r.URL
    /\ DOMAIN inv[i].r.Header = DOMAIN inv[j].r.Header
    /\ inv[i].r.Body = inv[j].r.Body
    /\ inv[i].addr = inv[j].addr

\* the invocation has looked the request up and found nothing
Missed(i) == inv[i].pc \notin {"idle", "check"} /\ ~inv[i].hit

\* C1: concurrent requests with one fingerprint that all miss the cache make
\* at most one call of generateLLMResponse between them, and are sent the
\* same HTTPResponse.
C1_ConcurrentMissesCoalesced ==
    \A i, j \in Slots :
        (Concurrent(i, j) /\ SameProbe(i, j) /\ Missed(i) /\ Missed(j))
        => /\ inv[i].nGen + inv[j].nGen <= 1
           /\ (Returned(i) /\ Returned(j)) => inv[i].sent = inv[j].sent

\* R1 = i missed the cache, generated and stored its response, and no other
\* request for the same probe overlapped it
GeneratedAndStoredAlone(i) ==
    /\ Returned(i) /\ ~inv[i].hit
    /\ inv[i].nGen = 1 /\ inv[i].genErr = "nil"
    /\ inv[i].nStore = 1 /\ inv[i].storeErr = "nil"
    /\ \A k \in Slots : (SameProbe(k, i) /\ Accepted(k)) => ~Concurrent(k, i)

C3_OneEventPerInvocation ==
    \A i \in Slots : Returned(i) => inv[i].nEvent = 1

\* C4: an invocation writes one response, calls generateLLMResponse and
\* storeResponse at most once each and only after a miss, and what it sends is
\* the parse of the cached bytes on a hit and of the generated string on a miss.
C4_OneWriteOneSource ==
    \A i \in Slots :
        /\ inv[i].w.writes <= 1 /\ inv[i].nGen <= 1 /\ inv[i].nStore <= 1
        /\ Returned(i) => inv[i].w.writes = 1
        /\ (inv[i].nGen > 0 \/ inv[i].nStore > 0) => Missed(i)
        /\ inv[i].sent # NoRecord =>
              IF inv[i].hit
              THEN /\ inv[i].nGen = 0
                   /\ inv[i].sent = Unmarshal(inv[i].cached).respData
              ELSE /\ inv[i].nGen = 1
                   /\ inv[i].sent = Unmarshal(inv[i].responseString).respData

\* one invocation answered from a fresh generation, another from the cache
C4_Witness ==
    \E i, j \in Slots :
        /\ Returned(i) /\ ~inv[i].hit /\ inv[i].nGen = 1 /\ inv[i].nStore = 1
        /\ inv[i].sent # NoRecord /\ inv[i].w.writes = 1
        /\ Returned(j) /\ inv[j].hit /\ inv[j].sent # NoRecord /\ inv[j].w.writes = 1

\* C5: every entry of the cache parses into an HTTPResponse.
C5_CacheEntriesParse ==
    \A k \in CacheKeys : cache[k] # NoEntry => Unmarshal(cache[k]).err = "nil"

\* the response of http.Error and nothing else
IsPlain500(w) ==
    /\ w.status = 500 /\ w.writes = 1
    /\ w.header = [h \in {hContentType, hXContentTypeOptions} |->
                     IF h = hContentType THEN "text/plain; charset=utf-8" ELSE "nosniff"]
    /\ w.body \in {<<>>, <<ErrorBody>>}

\* C6: when generateLLMResponse fails the invocation returns at once: the
\* client is sent the 500 of http.Error and nothing of an HTTPResponse, and
\* the step leaves the cache as it was; the invocation never stores.
C6_GenerationFailure ==
    [][\A i \in Slots :
          /\ inv'[i].genErr # "nil" =>
                /\ inv'[i].pc = "done"
                /\ IsPlain500(inv'[i].w)
                /\ inv'[i].sent = NoRecord
                /\ inv'[i].nStore = 0
          /\ (inv[i].genErr = "nil" /\ inv'[i].genErr # "nil") => cache' = cache]_vars

\* a generation has failed while the cache holds an entry
C6_Witness ==
    \E i \in Slots :
        /\ Returned(i) /\ inv[i].genErr # "nil" /\ inv[i].w.status = 500
        /\ \E k \in CacheKeys : cache[k] # NoEntry

\* C7: an invocation whose store failed goes on: a generated string that
\* parses is sent with status 200, its headers filtered and its body as it
\* is, and the success Event of the invocation is in the event log.
C7_StoreFailureNotFatal ==
    \A i \in Slots :
        (Returned(i) /\ inv[i].storeErr # "nil" /\ Unmarshal(inv[i].responseString).err = "nil")
        => LET rec == Unmarshal(inv[i].responseString).respData
           IN  /\ inv[i].sent = rec
               /\ inv[i].w.status = 200
               /\ \A h \in DOMAIN rec.Headers :
                     ToLower(h) \notin ignoreHeaders
                     => /\ CanonicalMIMEHeaderKey(h) \in DOMAIN inv[i].w.header
                        /\ inv[i].w.header[CanonicalMIMEHeaderKey(h)] = rec.Headers[h]
               /\ inv[i].w.failed = 0 => inv[i].w.body = <<rec.Body>>
               /\ inv[i].nEvent = 1
               /\ \E n \in DOMAIN eventLog :
                     eventLog[n] = makeEvent(inv[i].r, rec, inv[i].port)

\* a store has failed and the generated record was sent all the same
C7_Witness ==
    \E i \in Slots :
        /\ Returned(i) /\ inv[i].storeErr # "nil" /\ inv[i].nStore = 1
        /\ inv[i].sent = Unmarshal(PayloadPasswd).respData
        /\ inv[i].w.body = <<PayloadPasswd.Body>>

\* C18: an invocation whose write of the response body failed has gone on
\* all the same: its success Event is in the event log, and the cache entry
\* it stored is still there.
C18_WriteFailureNotFatal ==
    \A i \in Slots :
        (Returned(i) /\ inv[i].sent # NoRecord /\ inv[i].w.failed > 0)
        => /\ inv[i].nEvent = 1
           /\ \E n \in DOMAIN eventLog :
                 eventLog[n] = makeEvent(inv[i].r, inv[i].sent, inv[i].port)
           /\ (inv[i].nStore = 1 /\ inv[i].storeErr = "nil")
              => cache[getCacheKey(inv[i].r, inv[i].port)] # NoEntry

\* the write of a freshly generated and stored response has failed
C18_Witness ==
    \E i \in Slots :
        /\ Returned(i) /\ inv[i].sent # NoRecord
        /\ inv[i].w.failed = 1 /\ inv[i].w.body = <<>>
        /\ inv[i].nStore = 1 /\ inv[i].storeErr = "nil" /\ inv[i].nEvent = 1

-----------------------------------------------------------------------------
(* Properties of sendResponse, checked under SendSpec.                     *)

Forwarded(rec) == {h \in DOMAIN rec.Headers : ToLower(h) \notin ignoreHeaders}

\* C8: after sendResponse, a header of the record is set on the response
\* exactly if its lower-cased name is not in the exclusion set, a header that
\* is set carries the value the record gives it, and the body is the record's.
C8_HeadersFiltered ==
    sr.phase = "returned" =>
        /\ \A h \in DOMAIN sr.response.Headers :
              /\ CanonicalMIMEHeaderKey(h) \in DOMAIN sr.w.header <=> h \in Forwarded(sr.response)
              /\ h \in Forwarded(sr.response)
                 => sr.w.header[CanonicalMIMEHeaderKey(h)] = sr.response.Headers[h]
        /\ sr.w.failed = 0 => sr.w.body = <<sr.response.Body>>

\* What sendResponse does ensure: the names set are the canonical forms of the
\* names not excluded, and each carries the value the record gives to a name
\* of that canonical form (to the only one, when the record has no two names
\* that differ in letter case alone).
SendResponseFilters ==
    sr.phase = "returned" =>
        /\ DOMAIN sr.w.header = {CanonicalMIMEHeaderKey(h) : h \in Forwarded(sr.response)}
        /\ \A c \in DOMAIN sr.w.header :
              \E h \in Forwarded(sr.response) :
                 CanonicalMIMEHeaderKey(h) = c /\ sr.w.header[c] = sr.response.Headers[h]
        /\ sr.w.status = 200 /\ sr.w.writes = 1
        /\ sr.w.failed = 0 => sr.w.body = <<sr.response.Body>>

-----------------------------------------------------------------------------
(* Properties of the listener manager, checked under ListenerSpec.         *)

StartFailed(j) == task[j] = "returned" /\ taskErr[j] # "nil"

\* C9: once a goroutine of startServers has returned an error, startServers
\* returns an error to its caller (unless the process exits first).
C9_StartFailureReturned ==
    (\E j \in Bindings : StartFailed(j)) ~> (waitResult \notin {"pending", "nil"} \/ exited)

\* C10: when the shutdown goroutine exits the process, Shutdown has been
\* called on every server that was serving.
C10_ShutdownReachesServing ==
    exited => \A j \in Bindings : task[j] = "serving" => closed[j]

\* the bindings the claim names, read off the configuration
TLSBindingInvalid(pc) ==
    /\ pc.Protocol = "TLS"
    /\ \/ pc.TLSProfile = ""
       \/ pc.TLSProfile \notin DOMAIN config.TLS
       \/ config.TLS[pc.TLSProfile].Certificate = ""
       \/ config.TLS[pc.TLSProfile].Key = ""

ProtocolUnknown(pc) == pc.Protocol \notin {"HTTP", "TLS"}

\* C12: a TLS binding without a profile name, with a name that is not among
\* the profiles, or with a profile whose certificate or key path is empty,
\* and a binding of a protocol other than HTTP and TLS, never listens, returns
\* an error (the unknown-protocol error for the latter), and its port never
\* gets an entry in app.Servers.
C12_InvalidBindingNeverListens ==
    \A j \in Bindings :
        LET pc == config.Ports[j]
        IN  (TLSBindingInvalid(pc) \/ ProtocolUnknown(pc))
            => /\ task[j] # "serving"
               /\ ~closed[j]
               /\ pc.Port \notin DOMAIN Servers
               /\ task[j] = "returned" =>
                     /\ taskErr[j] # "nil"
                     /\ ProtocolUnknown(pc) <=> taskErr[j] = "unknown protocol"
                     /\ firstErr # "nil"

\* a TLS binding whose profile has no key path has returned its error while
\* the listener of the other binding serves
C12_Witness ==
    /\ task[1] = "serving"
    /\ task[2] = "returned" /\ taskErr[2] = "TLS profile is incomplete"
    /\ config.Ports[2] = TLS443NoKey

-----------------------------------------------------------------------------
(* Properties of errorFields, checked under ErrorSpec.                     *)

HasMarker(s, marker) == \E k \in DOMAIN s : s[k] = marker

\* the class the priority of the markers gives a message
ClassOf(s) ==
    IF HasMarker(s, errorInvalidJSONResponse) THEN errorInvalidJSONResponse
    ELSE IF HasMarker(s, errorEmptyLLMResponse) THEN errorEmptyLLMResponse
    ELSE errorContentGeneration

\* the places of s where the marker stands right before a separator
MarkerPlaces(s, marker) == {k \in 1..(Len(s) - 1) : s[k] = marker /\ s[k + 1] = ": "}

\* s without the marker and the separator at each of these places
WithoutMarker(s, marker) ==
    LET keep == {k \in DOMAIN s : k \notin MarkerPlaces(s, marker)
                                  /\ (k - 1) \notin MarkerPlaces(s, marker)}
    IN  [n \in 1..Cardinality(keep) |->
            s[CHOOSE k \in keep : Cardinality({j \in keep : j <= k}) = n]]

\* s without the marker and its separator when it starts with them
TrimMarkerPrefix(s, marker) ==
    IF Len(s) >= 2 /\ s[1] = marker /\ s[2] = ": " THEN SubSeq(s, 3, Len(s)) ELSE s

\* C13 as amended: errorFields gives every message the one class the priority
\* of the markers gives it; the stored message is the raw message without any
\* occurrence of that class's marker followed by ": " (a marker that no
\* separator follows stays); the raw response text is recorded as it is.
C13_ErrorClassified ==
    ef.phase = "returned" =>
        /\ ef.fields.type = ClassOf(ef.err)
        /\ ef.fields.msg = WithoutMarker(ef.err, ef.fields.type)
        /\ ef.fields.invalidResponse = ef.resp

\* a message with both markers, classed by the first, its prefix stripped
C13_Witness ==
    /\ ef.phase = "returned"
    /\ HasMarker(ef.err, errorInvalidJSONResponse) /\ HasMarker(ef.err, errorEmptyLLMResponse)
    /\ ef.err[1] = errorInvalidJSONResponse /\ ef.err[2] = ": "
    /\ ef.fields.type = errorInvalidJSONResponse
    /\ ef.fields.msg = SubSeq(ef.err, 3, Len(ef.err))

\* C13: errorFields gives every message the one class the priority of the
\* markers gives it; the stored message is the raw message with the prefix
\* made of that class's marker removed; the raw response text is recorded as
\* it is.
C13_MarkerPrefixStripped ==
    ef.phase = "returned" =>
        /\ ef.fields.type = ClassOf(ef.err)
        /\ ef.fields.msg = TrimMarkerPrefix(ef.err, ef.fields.type)
        /\ ef.fields.invalidResponse = ef.resp

-----------------------------------------------------------------------------
(* Properties of the Sessionizer as commonFields uses it, checked under    *)
(* SessionSpec.                                                            *)

\* the step is a call of LogEvent or LogError whose Sessionizer call succeeded
SessionCall == clock' = clock /\ lg'.sessErr = "nil" /\ (lg' # lg \/ seen' # seen)

\* C14: of two successive records of one source IP (timestamps never
\* decrease), the later carries the session of the earlier when it comes
\* within the inactivity window of it, and lastSeen is then set to its time;
\* otherwise, and for the first record of a source, the session is one that
\* no earlier record of that source carries.
C14_SessionWindowSlides ==
    [][SessionCall =>
         LET ip == lg'.entry.fields[<<"src_ip">>]
             session == lg'.entry.fields[<<"session">>]
         IN  /\ session # <<>>
             /\ ip \in DOMAIN sessions' /\ sessions'[ip].lastSeen = clock
             /\ IF ip \in DOMAIN seen /\ clock - seen[ip].at <= InactivityWindow
                THEN session = seen[ip].session
                ELSE ip \in DOMAIN seen => session \notin seen[ip].all]_vars

\* one source has kept its session longer than the window by coming back in
\* time, another has been given a second session after staying away
C14_Witness ==
    \E a, b \in DOMAIN seen :
        /\ seen[a].at - seen[a].since > InactivityWindow
        /\ Cardinality(seen[b].all) = 2
        /\ seen[b].at - seen[b].since = 0

-----------------------------------------------------------------------------
(* Properties of LogEvent and LogError, checked under LoggerSpec.          *)

\* the fields every Event has, with what the request gives for them
FullRecord(fields, r) ==
    /\ CommonKeys \subseteq DOMAIN fields
    /\ \A k \in DOMAIN r.Header :
          <<"request.headers.", k>> \in DOMAIN fields
          /\ fields[<<"request.headers.", k>>] = r.Header[k]
    /\ fields[<<"src_ip">>] = <<r.RemoteAddr[1]>>
    /\ fields[<<"dest_port">>] = Itoa(80)
    /\ fields[<<"sensorName">>] # <<>>
    /\ fields[<<"request.method">>] = r.Method
    /\ fields[<<"request.protocol">>] = r.Proto
    /\ fields[<<"request.requestURI">>] = r.RequestURI
    /\ fields[<<"request.body">>] = r.Body

\* C17: when the Enrichment Collaborator or the Sessionizer fails, the Event
\* is written all the same, with every field of the record: tags and hostname
\* are empty after an enrichment failure, the session is blank after a
\* Sessionizer failure.
C17_CollaboratorFailureNotFatal ==
    (lg.op # "none" /\ (lg.enrichErr # "nil" \/ lg.sessErr # "nil")) =>
        /\ lg.entry.msg # ""
        /\ lg.op = "LogEvent" =>
              /\ lg.entry.msg = "successfulResponse"
              /\ lg.entry.fields[<<"response.body">>] = lg.resp.Body
        /\ FullRecord(lg.entry.fields, lg.r)
        /\ lg.enrichErr # "nil" =>
              /\ lg.entry.fields[<<"tags">>] = ""
              /\ lg.entry.fields[<<"hostname">>] = ""
        /\ lg.sessErr # "nil" => lg.entry.fields[<<"session">>] = <<>>

\* a success Event written when both collaborators failed
C17_Witness ==
    /\ lg.op = "LogEvent" /\ lg.enrichErr # "nil" /\ lg.sessErr # "nil"
    /\ lg.entry.msg = "successfulResponse"
    /\ lg.entry.fields[<<"session">>] = <<>> /\ lg.entry.fields[<<"tags">>] = ""

ResponseHeaderKey(k) == <<"response.headers.">> \o k

\* C19: the success Event has, for every header (k, v) of the record, the
\* field response.headers.k with value v, whether or not k is in the exclusion
\* set, and no other field of that namespace; its response.body is the body
\* of the record, which is what sendResponse writes to the client.
C19_EventRecordsResponse ==
    lg.op = "LogEvent" =>
        /\ \A k \in DOMAIN lg.resp.Headers :
              /\ ResponseHeaderKey(k) \in DOMAIN lg.entry.fields
              /\ lg.entry.fields[ResponseHeaderKey(k)] = lg.resp.Headers[k]
        /\ {key \in DOMAIN lg.entry.fields : key[1] = "response.headers."}
              = {ResponseHeaderKey(k) : k \in DOMAIN lg.resp.Headers}
        /\ lg.entry.fields[<<"response.body">>] = lg.resp.Body

\* an Event with a header that sendResponse does not forward
C19_Witness ==
    /\ lg.op = "LogEvent"
    /\ hDate \in DOMAIN lg.resp.Headers /\ isExcludedHeader(hDate)
    /\ lg.entry.fields[ResponseHeaderKey(hDate)] = "today"
    /\ lg.entry.fields[ResponseHeaderKey(hXCustom)] = "1"
    /\ lg.entry.fields[<<"response.body">>] = PayloadPasswd.Body

-----------------------------------------------------------------------------
(* Properties of the whole program, checked under Spec.                    *)

\* Shutdown(ctx) of the server that accepted invocation i returned the error
\* of ctx, its deadline having passed with requests still in flight
HitDeadline(i) ==
    \E p \in shut.failed :
        p \in DOMAIN Servers /\ inv[i].srv = Servers[p]

\* C11: when the process exits on the signal, every request accepted before
\* has returned with its response written (and its Event emitted when an
\* HTTPResponse was sent), unless the shutdown deadline of its server passed
\* first; and once the signal has been handled no connection is accepted.
C11_InFlightCompletesBeforeExit ==
    [][/\ exited' =>
            \A i \in Slots :
                (inv'[i].pc # "idle" /\ ~HitDeadline(i)')
                => /\ inv'[i].pc = "done"
                   /\ inv'[i].w.writes = 1
                   /\ inv'[i].sent # NoRecord => inv'[i].nEvent = 1
       /\ shut.pc # "wait" =>
            \A i \in Slots : inv[i].pc = "idle" => inv'[i].pc = "idle"]_vars

\* Shutdown was called on the server of binding j and returned nil
ShutdownSucceeded(j) ==
    /\ closed[j]
    /\ config.Ports[j].Port \in DOMAIN Servers
    /\ config.Ports[j].Port \notin shut.failed
    /\ InFlightOn(j) = {}

\* C15: the process has exited with status 0 on the signal only if Shutdown
\* returned without error for every listener: none was left serving, none
\* failed or ran into the deadline with requests in flight.
C15_ExitZeroOnlyAfterDrain ==
    (exited /\ exitCode = 0) =>
        \A j \in Bindings : task[j] = "serving" => ShutdownSucceeded(j)

\* the destination port of invocation i: the port of the binding whose
\* listener accepted it, as a string
DestPort(i) == Itoa(config.Ports[inv[i].srv].Port)

\* C16: every goroutine of startServers works on the binding of its own
\* iteration: a listener that serves listens on the port and with the protocol
\* of its binding, no two listen on one address, a goroutine that returned
\* without listening returned the error of its own binding, and a request a
\* listener accepted is looked up, stored and logged with that listener's port.
C16_OwnBinding ==
    /\ \A j \in Bindings :
          /\ task[j] = "serving" =>
                listen[j] = [Addr |-> SprintfAddr(config.Ports[j].Port),
                             Protocol |-> config.Ports[j].Protocol]
          /\ (task[j] = "returned" /\ listen[j] = NoListen) =>
                taskErr[j] \in {startError(config.Ports[j]), "listen: address already in use"}
    /\ \A j, k \in Bindings :
          (j # k /\ listen[j] # NoListen /\ listen[k] # NoListen)
          => listen[j].Addr # listen[k].Addr
    /\ \A i \in Slots :
          inv[i].pc \notin {"idle", "check"} =>
             /\ inv[i].port = DestPort(i)
             /\ (inv[i].nStore = 1 /\ inv[i].storeErr = "nil") =>
                   cache[getCacheKey(inv[i].r, DestPort(i))] # NoEntry
             /\ inv[i].nEvent = 1 =>
                   \E n \in DOMAIN eventLog :
                      eventLog[n].port = DestPort(i) /\ eventLog[n].request = inv[i].r

\* both listeners serve, and a request that came in on port 443 has been
\* stored and logged
C16_Witness ==
    /\ task[1] = "serving" /\ listen[1] = [Addr |-> SprintfAddr(80), Protocol |-> "HTTP"]
    /\ task[2] = "serving" /\ listen[2] = [Addr |-> SprintfAddr(443), Protocol |-> "TLS"]
    /\ \E i \in Slots :
          /\ inv[i].srv = 2 /\ inv[i].pc = "done" /\ inv[i].port = Itoa(443)
          /\ inv[i].nStore = 1 /\ inv[i].storeErr = "nil" /\ inv[i].nEvent = 1

====
